---- MODULE Spec2Model ----
(***************************************************************************)
(* Model of the Syncable donation notifier (src/src/main.ts).              *)
(*                                                                         *)
(* One scheduler-triggered invocation of checkForNewDonations() is a       *)
(* strictly sequential run: load the configuration, construct the sinks,   *)
(* search the mailbox, and for every message of the found threads extract  *)
(* the donation details, notify, record and mark the message read.  Every  *)
(* call of a host service (PropertiesService, GmailApp, UrlFetchApp,       *)
(* SpreadsheetApp) is one step whose outcome (return or throw) is chosen   *)
(* nondeterministically.                                                   *)
(*                                                                         *)
(* Text is a sequence of one-character strings.  The fixed Japanese        *)
(* labels and the currency unit of the mail body are literals of the       *)
(* regular expressions; each is written as one token:                      *)
(*   "<date>"   = 支援受付日時:      "<name>" = 支援付者名:                 *)
(*   "<amount>" = 支援金額:          "<freq>" = 支援頻度:                   *)
(*   "<yen>"    = 円                                                        *)
(***************************************************************************)
EXTENDS Integers, Sequences, FiniteSets, TLC

\* ------------------------------------------------------------------ bounds
\* the matching mails that arrive
MaxMsgs == 2
\* the invocations the scheduler makes
MaxRuns == 2
\* the host calls that may fail, over all invocations
MaxFaults == 1

\* ------------------------------------------------------------ text helpers
\* A failed match (null); a successful match is the tuple of its groups.
NoMatch == <<>>
\* null, where the other values are records.
Null == [type |-> "null"]

\* The characters outside ASCII are written as one token each, "<U+3000>".
\* LineTerminator: what the . of a regular expression does not match.
LineTerminators == {"\n", "\r", "<U+2028>", "<U+2029>"}
IsLineTerminator(c) == c \in LineTerminators
\* WhiteSpace and LineTerminator: the class \s, and what trim removes.
WhiteSpace ==
  {" ", "\t", "<U+000B>", "\f", "<U+00A0>", "<U+1680>", "<U+2000>", "<U+2001>",
   "<U+2002>", "<U+2003>", "<U+2004>", "<U+2005>", "<U+2006>", "<U+2007>",
   "<U+2008>", "<U+2009>", "<U+200A>", "<U+202F>", "<U+205F>", "<U+3000>",
   "<U+FEFF>"}
IsWs(c) == c \in WhiteSpace \cup LineTerminators
IsDigit(c) == c \in {"0", "1", "2", "3", "4", "5", "6", "7", "8", "9"}
IsAmountChar(c) == IsDigit(c) \/ c = ","

DigitVal(c) ==
  CASE c = "0" -> 0 [] c = "1" -> 1 [] c = "2" -> 2 [] c = "3" -> 3
    [] c = "4" -> 4 [] c = "5" -> 5 [] c = "6" -> 6 [] c = "7" -> 7
    [] c = "8" -> 8 [] c = "9" -> 9

DigitChar(d) ==
  CASE d = 0 -> "0" [] d = 1 -> "1" [] d = 2 -> "2" [] d = 3 -> "3"
    [] d = 4 -> "4" [] d = 5 -> "5" [] d = 6 -> "6" [] d = 7 -> "7"
    [] d = 8 -> "8" [] d = 9 -> "9"

Min(S) == CHOOSE x \in S : \A y \in S : x <= y
Max(S) == CHOOSE x \in S : \A y \in S : x >= y

\* First index >= i of s that does not satisfy the class, Len(s)+1 when none:
\* the end of a greedy run \s*, [\d,]* or .* that starts at i.
WsEnd(s, i) ==
  Min({k \in i..(Len(s) + 1) : k = Len(s) + 1 \/ ~IsWs(s[k])})
AmountEnd(s, i) ==
  Min({k \in i..(Len(s) + 1) : k = Len(s) + 1 \/ ~IsAmountChar(s[k])})
DigitEnd(s, i) ==
  Min({k \in i..(Len(s) + 1) : k = Len(s) + 1 \/ ~IsDigit(s[k])})
LineEnd(s, i) ==
  Min({k \in i..(Len(s) + 1) : k = Len(s) + 1 \/ IsLineTerminator(s[k])})

\* String.prototype.trim
trim(s) ==
  LET keep == {k \in 1..Len(s) : ~IsWs(s[k])}
  IN IF keep = {} THEN <<>> ELSE SubSeq(s, Min(keep), Max(keep))

\* s.split(/\s{2,}/)[0]: the text before the first run of two or more
\* whitespace characters.
SplitWs2First(s) ==
  LET cut == {k \in 1..(Len(s) - 1) : IsWs(s[k]) /\ IsWs(s[k + 1])}
  IN IF cut = {} THEN s ELSE SubSeq(s, 1, Min(cut) - 1)

\* s.split(' ')[0]: the text before the first space.
SplitSpaceFirst(s) ==
  LET cut == {k \in 1..Len(s) : s[k] = " "}
  IN IF cut = {} THEN s ELSE SubSeq(s, 1, Min(cut) - 1)

\* padStart(2, '0')
padStart2(s) == IF Len(s) < 2 THEN <<"0">> \o s ELSE s

\* ------------------------------------------------- DateUtils (main.ts 22-41)
\* A group (\d{1,2}) that a literal follows: the digit run starting at i has
\* one or two digits.
Grp12(s, i) == DigitEnd(s, i) - i \in {1, 2}

\* The match of
\*   (\d{4})\/(\d{1,2})\/(\d{1,2})\s+(\d{1,2}):(\d{1,2}):(\d{1,2})
\* that starts at index p, as the six groups, or NoMatch.
DateMatchAt(s, p) ==
  IF ~(p + 4 <= Len(s) /\ (\A k \in p..(p + 3) : IsDigit(s[k])) /\ s[p + 4] = "/")
  THEN NoMatch
  ELSE
    LET mo == p + 5
        moE == DigitEnd(s, mo)
    IN IF ~(Grp12(s, mo) /\ moE <= Len(s) /\ s[moE] = "/") THEN NoMatch
       ELSE
         LET da == moE + 1
             daE == DigitEnd(s, da)
             ho == WsEnd(s, daE)
             hoE == DigitEnd(s, ho)
         IN IF ~(Grp12(s, da) /\ ho > daE /\ Grp12(s, ho)
                 /\ hoE <= Len(s) /\ s[hoE] = ":") THEN NoMatch
            ELSE
              LET mi == hoE + 1
                  miE == DigitEnd(s, mi)
              IN IF ~(Grp12(s, mi) /\ miE <= Len(s) /\ s[miE] = ":") THEN NoMatch
                 ELSE
                   LET se == miE + 1
                       seE == IF DigitEnd(s, se) - se > 2 THEN se + 2
                              ELSE DigitEnd(s, se)
                   IN IF seE = se THEN NoMatch
                      ELSE << SubSeq(s, p, p + 3), SubSeq(s, mo, moE - 1),
                              SubSeq(s, da, daE - 1), SubSeq(s, ho, hoE - 1),
                              SubSeq(s, mi, miE - 1), SubSeq(s, se, seE - 1) >>

\* dateString.match(...): the leftmost match.
DateMatch(s) ==
  LET starts == {p \in 1..Len(s) : DateMatchAt(s, p) # NoMatch}
  IN IF starts = {} THEN NoMatch ELSE DateMatchAt(s, Min(starts))

\* DateUtils.normalize
normalize(dateString) ==
  LET match == DateMatch(dateString)
  IN IF match = NoMatch THEN dateString
     ELSE match[1] \o <<"/">> \o padStart2(match[2]) \o <<"/">>
          \o padStart2(match[3]) \o <<" ">> \o padStart2(match[4]) \o <<":">>
          \o padStart2(match[5]) \o <<":">> \o padStart2(match[6])

\* The value of a digit string.
RECURSIVE DigitsToInt(_)
DigitsToInt(s) ==
  IF s = <<>> THEN 0
  ELSE 10 * DigitsToInt(SubSeq(s, 1, Len(s) - 1)) + DigitVal(s[Len(s)])

\* The numbers of a text  Y/M/D,  Y/M/D H:M  or  Y/M/D H:M:S  (any number of
\* digits each, white space of the class \s before the time), as
\* <<n1, n2, n3, h, m, s, word>>, or NoMatch when the text is not of that
\* form.  word: the white space holds U+2028 or U+2029, which the host's date
\* parser takes not as white space but as a word.  A number of more than nine
\* significant digits is left to the host (NoMatch).
SlashDateFields(s) ==
  LET aE == DigitEnd(s, 1)
      long == \E i \in 1..Len(s) :
                IsDigit(s[i]) /\ s[i] # "0" /\ DigitEnd(s, i) - i > 9
  IN IF long THEN NoMatch ELSE IF ~(aE > 1 /\ aE <= Len(s) /\ s[aE] = "/") THEN NoMatch
     ELSE
       LET bE == DigitEnd(s, aE + 1)
       IN IF ~(bE > aE + 1 /\ bE <= Len(s) /\ s[bE] = "/") THEN NoMatch
          ELSE
            LET cE == DigitEnd(s, bE + 1)
                n1 == DigitsToInt(SubSeq(s, 1, aE - 1))
                n2 == DigitsToInt(SubSeq(s, aE + 1, bE - 1))
                n3 == DigitsToInt(SubSeq(s, bE + 1, cE - 1))
                h == WsEnd(s, cE)
                hE == DigitEnd(s, h)
                word == \E k \in cE..(h - 1) : s[k] \in {"<U+2028>", "<U+2029>"}
            IN IF cE = bE + 1 THEN NoMatch
               ELSE IF cE = Len(s) + 1 THEN <<n1, n2, n3, 0, 0, 0, FALSE>>
               ELSE IF ~(h > cE /\ hE > h /\ hE <= Len(s) /\ s[hE] = ":")
               THEN NoMatch
               ELSE
                 LET mE == DigitEnd(s, hE + 1)
                     sE == DigitEnd(s, mE + 1)
                     hh == DigitsToInt(SubSeq(s, h, hE - 1))
                     mm == DigitsToInt(SubSeq(s, hE + 1, mE - 1))
                 IN IF mE = hE + 1 THEN NoMatch
                    ELSE IF mE = Len(s) + 1
                    THEN <<n1, n2, n3, hh, mm, 0, word>>
                    ELSE IF s[mE] = ":" /\ sE > mE + 1 /\ sE = Len(s) + 1
                    THEN <<n1, n2, n3, hh, mm,
                           DigitsToInt(SubSeq(s, mE + 1, sE - 1)), word>>
                    ELSE NoMatch

IsLeapYear(y) == (y % 4 = 0 /\ y % 100 # 0) \/ y % 400 = 0
DaysInMonth(y, m) ==
  IF m = 2 THEN (IF IsLeapYear(y) THEN 29 ELSE 28)
  ELSE IF m \in {4, 6, 9, 11} THEN 30 ELSE 31

\* The date <<year, month, day>> of a day number that may lie past the end of
\* its month.
CarryDay(y, mo, d) ==
  IF d <= DaysInMonth(y, mo) THEN <<y, mo, d>>
  ELSE IF mo = 12 THEN <<y + 1, 1, d - DaysInMonth(y, mo)>>
  ELSE <<y, mo + 1, d - DaysInMonth(y, mo)>>

\* The day of the week of y-mo-d, 0 for Sunday.
DayOfWeek(y, mo, d) ==
  LET t == <<0, 3, 2, 5, 0, 3, 5, 1, 4, 6, 2, 4>>
      yy == IF mo < 3 THEN y - 1 ELSE y
  IN (yy + (yy \div 4) - (yy \div 100) + (yy \div 400) + t[mo] + d) % 7
\* The Sunday among the seven days of the month from day `from` on.
SundayFrom(y, mo, from) ==
  CHOOSE d \in from..(from + 6) : DayOfWeek(y, mo, d) = 0

\* The script's time zone is a setting of the project.  A local time depends
\* on it through the clock changes that skip local time.
TimeZones == {"UTC", "America/New_York"}

\* The clock changes of the zone in year y that skip local time, each
\* [month, day, minute, gap]: on that day the gap minutes of local time from
\* minute (of the day) on do not exist.  In New York the clock goes from 02:00
\* to 03:00 on one day of the year.
ClockChanges(zone, y) ==
  IF zone # "America/New_York" THEN {}
  ELSE LET on == IF y >= 2007 THEN <<3, SundayFrom(y, 3, 8)>>
                 ELSE IF y >= 1987 THEN <<4, SundayFrom(y, 4, 1)>>
                 ELSE IF y = 1975 THEN <<2, 23>>
                 ELSE IF y = 1974 THEN <<1, 6>>
                 ELSE IF y >= 1946 \/ y \in 1921..1941
                 THEN <<4, SundayFrom(y, 4, 24)>>
                 ELSE IF y = 1942 THEN <<2, 9>>
                 ELSE IF y \in 1918..1920 THEN <<3, SundayFrom(y, 3, 25)>>
                 ELSE <<>>
       IN IF on = <<>> THEN {}
          ELSE {[month |-> on[1], day |-> on[2], minute |-> 120, gap |-> 60]}

\* The minutes by which the host moves the local time y-mo-d h:mi on: the gap
\* of the clock change that skips it, 0 when the local time exists.
SkippedBy(zone, y, mo, d, h, mi) ==
  LET hit == {c \in ClockChanges(zone, y) :
                /\ c.month = mo /\ c.day = d
                /\ 60 * h + mi >= c.minute
                /\ 60 * h + mi < c.minute + c.gap}
  IN IF hit = {} THEN 0 ELSE (CHOOSE c \in hit : TRUE).gap

\* The local date and time of the numbers of a slash date, as the host's
\* legacy date parser composes them, or Null (an invalid date):
\*  - a word after a number makes the date invalid;
\*  - the first number is the year unless it is in 1..31, then the order is
\*    month/day/year; a year below 50 is in 2000.., a year in 50..99 in
\*    1900..;
\*  - month 1..12, day 1..31, hour 0..23, minute and second 0..59, and
\*    24:00:00;
\*  - a day past the end of the month, and hour 24, carry into the next day;
\*  - a time value ends at 13 September 275760 UTC: past it the date is
\*    invalid, and within a day of it the script's time zone decides
\*    (hostAccepts);
\*  - a local time that the zone skips is moved on by the gap.
ComposeDate(f, hostAccepts, zone) ==
  LET ymd == f[1] \notin 1..31
      y0 == IF ymd THEN f[1] ELSE f[3]
      mo == IF ymd THEN f[2] ELSE f[1]
      d0 == IF ymd THEN f[3] ELSE f[2]
      y == IF y0 \in 0..49 THEN y0 + 2000
           ELSE IF y0 \in 50..99 THEN y0 + 1900 ELSE y0
      timeOk == \/ f[4] \in 0..23 /\ f[5] \in 0..59 /\ f[6] \in 0..59
                \/ f[4] = 24 /\ f[5] = 0 /\ f[6] = 0
      d == IF f[4] = 24 THEN d0 + 1 ELSE d0
      pastEnd == \/ y > 275760
                 \/ y = 275760 /\ (mo > 9 \/ (mo = 9 /\ d > 14))
      atEnd == y = 275760 /\ mo = 9 /\ d \in 12..14
      written == CarryDay(y, mo, d)
      hour == IF f[4] = 24 THEN 0 ELSE f[4]
      gap == SkippedBy(zone, written[1], written[2], written[3], hour, f[5])
      minutes == 60 * hour + f[5] + gap
      moved == CarryDay(written[1], written[2], written[3] + (minutes \div 1440))
  IN IF f[7] \/ ~(mo \in 1..12 /\ d0 \in 1..31 /\ timeOk) THEN Null
     ELSE IF pastEnd \/ (atEnd /\ ~hostAccepts) THEN Null
     ELSE [type |-> "Date",
           year |-> moved[1], month |-> moved[2], day |-> moved[3],
           hour |-> (minutes % 1440) \div 60, minute |-> minutes % 60,
           second |-> f[6]]

\* DateUtils.parseDate: new Date(dateString), null when it is an invalid date.
\* The format is not ISO, so the result is the host's: for a slash date it is
\* the host's legacy parse in the script's time zone, the Date written as the
\* record of its local fields; for any other text hostAccepts says whether the
\* host makes a Date of it, and that Date is written by the text it was made
\* of.
parseDate(dateString, hostAccepts, zone) ==
  LET f == SlashDateFields(dateString)
  IN IF f # NoMatch THEN ComposeDate(f, hostAccepts, zone)
     ELSE IF hostAccepts THEN [type |-> "Date", of |-> dateString]
     ELSE Null

\* ------------------------------------ GmailService.extractDonationDetails
\* The match of  label\s*(.+)  when the match starts at index i (s[i] is the
\* label).  \s* is greedy and also consumes line breaks; when it consumed the
\* rest of the text it backtracks to the last character that is no line
\* terminator.
RestAt(s, i) ==
  LET k == WsEnd(s, i + 1)
      back == {j \in (i + 1)..Len(s) : ~IsLineTerminator(s[j])}
  IN IF k <= Len(s) THEN <<SubSeq(s, k, LineEnd(s, k) - 1)>>
     ELSE IF back = {} THEN NoMatch
     ELSE <<SubSeq(s, Max(back), LineEnd(s, Max(back)) - 1)>>

\* body.match(/label\s*(.+)/): the leftmost match, or NoMatch.
MatchRest(s, label) ==
  LET starts == {i \in 1..Len(s) : s[i] = label /\ RestAt(s, i) # NoMatch}
  IN IF starts = {} THEN NoMatch ELSE RestAt(s, Min(starts))

\* The match of  <amount>\s*([\d,]+)\s*<yen>  when the match starts at i.
AmountAt(s, i) ==
  LET k == WsEnd(s, i + 1)
      e == AmountEnd(s, k)
      y == WsEnd(s, e)
  IN IF e > k /\ y <= Len(s) /\ s[y] = "<yen>" THEN <<SubSeq(s, k, e - 1)>>
     ELSE NoMatch

MatchAmount(s) ==
  LET starts == {i \in 1..Len(s) : s[i] = "<amount>" /\ AmountAt(s, i) # NoMatch}
  IN IF starts = {} THEN NoMatch ELSE AmountAt(s, Min(starts))

\* amountString.replace(/,/g, '')
StripCommas(s) == SelectSeq(s, LAMBDA c : c # ",")

\* A Number that is an integer, by its decimal digits, and the two Numbers
\* that are none.
Number(digits) == [type |-> "number", digits |-> digits]
NaN == [type |-> "NaN"]
Infinity == [type |-> "Infinity"]

\* Arithmetic on decimal digits.
StripZeros(s) ==
  LET nz == {i \in 1..Len(s) : s[i] # "0"}
  IN IF nz = {} THEN <<"0">> ELSE SubSeq(s, Min(nz), Len(s))
Zeros(n) == <<>> \o [i \in 1..n |-> "0"]
Less(a, b) ==
  \/ Len(a) < Len(b)
  \/ /\ Len(a) = Len(b)
     /\ \E i \in 1..Len(a) : /\ DigitVal(a[i]) < DigitVal(b[i])
                             /\ \A j \in 1..(i - 1) : a[j] = b[j]
IsOdd(a) == DigitVal(a[Len(a)]) % 2 = 1
Halve(a) ==
  StripZeros([i \in 1..Len(a) |->
    DigitChar((10 * (IF i = 1 THEN 0 ELSE DigitVal(a[i - 1]) % 2)
               + DigitVal(a[i])) \div 2)])
\* The integer of the (at most eight) digits of a that end at index j, which
\* is the integer of the first j digits modulo 2^8 when taken modulo 2^8.
Last8(a, j) == DigitsToInt(SubSeq(a, Max({1, j - 7}), j))
\* a modulo 2^8, and a divided by 2^8
Low8(a) == Last8(a, Len(a)) % 256
Shift8(a) ==
  StripZeros([i \in 1..Len(a) |->
    DigitChar((10 * (IF i = 1 THEN 0 ELSE Last8(a, i - 1) % 256)
               + DigitVal(a[i])) \div 256)])
Twice(a) ==
  LET low == [i \in 1..Len(a) |->
                DigitChar((2 * DigitVal(a[i])
                           + (IF i < Len(a) /\ DigitVal(a[i + 1]) >= 5
                              THEN 1 ELSE 0)) % 10)]
  IN (IF DigitVal(a[1]) >= 5 THEN <<"1">> ELSE <<>>) \o low
Succ(a) ==
  LET k == Max({0} \cup {i \in 1..Len(a) : a[i] # "9"})
  IN IF k = 0 THEN <<"1">> \o Zeros(Len(a))
     ELSE <<>> \o [i \in 1..Len(a) |->
             IF i < k THEN a[i]
             ELSE IF i = k THEN DigitChar(DigitVal(a[i]) + 1) ELSE "0"]
\* q times 2^e
RECURSIVE Scale(_, _)
Scale(q, e) ==
  IF e = 0 \/ q = <<"0">> THEN q
  ELSE IF e >= 8
  THEN Scale(Twice(Twice(Twice(Twice(Twice(Twice(Twice(Twice(q)))))))), e - 8)
  ELSE Scale(Twice(q), e - 1)

\* 2^53: the integers below it are Numbers.  2^61.
TwoTo53 ==
  <<"9", "0", "0", "7", "1", "9", "9", "2", "5", "4", "7", "4", "0", "9", "9", "2">>
TwoTo61 ==
  <<"2", "3", "0", "5", "8", "4", "3", "0", "0", "9", "2", "1", "3", "6", "9",
    "3", "9", "5", "2">>

\* The 53 leading bits of the integer a, rounded to nearest (ties to even),
\* and the number e of bits below them, as <<q, e>>: half is the last bit
\* taken off, sticky says that a bit before it was 1.  Eight bits are taken
\* off at a time while that leaves 53.
RECURSIVE RoundBits(_, _, _, _)
RoundBits(a, half, sticky, e) ==
  IF Less(a, TwoTo53)
  THEN <<IF half /\ (sticky \/ IsOdd(a)) THEN Succ(a) ELSE a, e>>
  ELSE IF ~Less(a, TwoTo61)
  THEN RoundBits(Shift8(a), Low8(a) >= 128,
                 sticky \/ half \/ Low8(a) % 128 # 0, e + 8)
  ELSE RoundBits(Halve(a), IsOdd(a), sticky \/ half, e + 1)

\* The Number nearest to the integer of the digits: the integer below 2^53,
\* Infinity from 2^1024 on.
Strtod(digits) ==
  IF Less(digits, TwoTo53) THEN Number(digits)
  ELSE LET r == RoundBits(digits, FALSE, FALSE, 0)
       IN IF r[2] > 971 \/ (r[2] = 971 /\ r[1] = TwoTo53) THEN Infinity
          ELSE Number(Scale(r[1], r[2]))

\* parseInt(text, 10) of a text of digits: NaN when there is no digit, else
\* the Number nearest to the integer; more than 309 significant digits are
\* Infinity.
parseInt(s) ==
  LET e == DigitEnd(s, 1)
      digits == StripZeros(SubSeq(s, 1, e - 1))
  IN IF e = 1 THEN NaN
     ELSE IF Len(digits) > 309 THEN Infinity
     ELSE Strtod(digits)

\* GmailService.extractDonationDetails: the details, or Null.
extractDonationDetails(body) ==
  LET mDate == MatchRest(body, "<date>")
      mName == MatchRest(body, "<name>")
      mAmount == MatchAmount(body)
      mFreq == MatchRest(body, "<freq>")
  IN IF NoMatch \in {mDate, mName, mAmount, mFreq} THEN Null
     ELSE LET amount == parseInt(StripCommas(trim(mAmount[1])))
          IN IF amount = NaN THEN Null
             ELSE [type |-> "DonationDetails",
                   date |-> normalize(trim(mDate[1])),
                   name |-> trim(SplitWs2First(mName[1])),
                   amount |-> amount,
                   frequency |-> trim(SplitSpaceFirst(mFreq[1]))]

\* --------------------------------- SlackService payload (main.ts 146-150)
\* The shortest digits that read back as the Number v (digits of an integer
\* from 2^53 on), the nearest to v first: what the host prints of v.
ShortestDigits(v) ==
  LET n == Len(v)
      Down(k) == SubSeq(v, 1, k) \o Zeros(n - k)
      Up(k) == Succ(SubSeq(v, 1, k)) \o Zeros(n - k)
      Near(k) == IF k < n /\ DigitVal(v[k + 1]) >= 5 THEN Up(k) ELSE Down(k)
      Far(k) == IF k < n /\ DigitVal(v[k + 1]) >= 5 THEN Down(k) ELSE Up(k)
      Reads(c) == Strtod(c) = Number(v)
      k == Min({j \in 1..Min({17, n}) : Reads(Near(j)) \/ Reads(Far(j))})
  IN IF Reads(Near(k)) THEN Near(k) ELSE Far(k)

RECURSIVE GroupThousands(_)
GroupThousands(d) ==
  IF Len(d) <= 3 THEN d
  ELSE GroupThousands(SubSeq(d, 1, Len(d) - 3)) \o <<",">>
       \o SubSeq(d, Len(d) - 2, Len(d))

\* amount.toLocaleString(): the digits in groups of three, the infinity sign
\* for Infinity.
toLocaleString(n) ==
  IF n = Infinity THEN <<"<infinity>">>
  ELSE IF n = NaN THEN <<"N", "a", "N">>
  ELSE IF Less(n.digits, TwoTo53) THEN GroupThousands(n.digits)
  ELSE GroupThousands(ShortestDigits(n.digits))

SlackWorkflowPayload(date, amount, frequency) ==
  [date |-> date, amount |-> toLocaleString(amount) \o <<"<yen>">>,
   frequency |-> frequency]

\* ------------------------------------------------------------ mail bodies
\* The plain bodies a matching mail is drawn from.
\* a complete mail: CRLF line ends, an ideographic space and a tab after the
\* labels, a timestamp without leading zeros
BodyOk ==
  << "<date>", "<U+3000>", "2", "0", "2", "4", "/", "3", "/", "1", "0", " ", "2", ":", "7", ":", "1", "\r", "\n",
     "<name>", "\t", "A", " ", " ", "x", "\r", "\n",
     "<amount>", " ", "1", ",", "2", "0", "0", "<yen>", "\r", "\n",
     "<freq>", " ", "M", " ", "x", "\r", "\n" >>
\* no frequency line
BodyNoFreq ==
  << "<date>", "n", "o", "w", "\r", "\n", "<name>", "B", "\r", "\n",
     "<amount>", "5", "0", "0", "<yen>", "\r", "\n" >>
\* an amount of separators only: parseInt yields NaN
BodyBadAmount ==
  << "<date>", "n", "o", "w", "\n", "<name>", "C", "\n",
     "<amount>", ",", "<yen>", "\n", "<freq>", "M" >>
Bodies == {BodyOk, BodyNoFreq, BodyBadAmount}

\* no date line, no name line, no amount line
BodyNoDate ==
  << "<name>", "E", "\n", "<amount>", "7", "<yen>", "\n", "<freq>", "M" >>
BodyNoName ==
  << "<date>", "n", "o", "w", "\n", "<amount>", "7", "<yen>", "\n",
     "<freq>", "M" >>
BodyNoAmount ==
  << "<date>", "n", "o", "w", "\n", "<name>", "F", "\n", "<freq>", "M" >>
\* an amount of 310 digits: parseInt yields Infinity
BodyHugeAmount ==
  << "<date>", "2", "0", "2", "4", "/", "3", "/", "5", " ", "9", ":", "7", ":", "1", "\n",
     "<name>", "G", "\n", "<amount>", "1" >> \o Zeros(309)
  \o << "<yen>", "\n", "<freq>", "M" >>
AllBodies ==
  Bodies \cup {BodyNoDate, BodyNoName, BodyNoAmount, BodyHugeAmount}

\* extractDonationDetails on each of the bodies, evaluated once.
DetailsOf == [b \in AllBodies |-> extractDonationDetails(b)]

\* ------------------------------------------------------------------ state
VARIABLES
  props,          \* the script properties (PropertiesService), per key
  timeZone,       \* the script's time zone
  mailbox,        \* the matching mails, by arrival: [thread, unread, body]
  sheet,          \* the rows of the spreadsheet's sheet
  posts,          \* the payloads POSTed to the webhook
  pc,             \* the position of the invocation
  config,         \* ConfigService.config
  slackService,   \* DonationNotifierApp.slackService is not null
  sheetsService,  \* DonationNotifierApp.sheetsService is not null
  messages,       \* GmailService.processNewDonations: messages (mail ids)
  idx,            \* the position of the for-of loop in messages
  details,        \* the details handed to processDonation
  runs,           \* the invocations the scheduler has started
  faults,         \* the host calls that have failed so far
  start,          \* history: posts, donation rows and unread mails at the call
  unreadAtScan,   \* history: the mails that were unread at the search
  trace           \* history: the calls of this invocation, in order

vars == << props, timeZone, mailbox, sheet, posts, pc, config, slackService,
           sheetsService, messages, idx, details, runs, faults, start,
           unreadAtScan, trace >>

PropKeys == {"SLACK_WEBHOOK_URL", "GOOGLE_SHEETS_ID", "GOOGLE_SHEETS_NAME"}
\* getProperty: null, or the stored text
PropValues == {"null", "set"}
Boolean(v) == v # "null"

NullConfig == [slackWebhookUrl |-> "null", spreadsheetId |-> "null", sheetName |-> "null"]

HeaderRow == [type |-> "header", msg |-> 0]
DonationRow(m, d, hostAccepts, zone) ==
  LET parsedDate == parseDate(d.date, hostAccepts, zone)
      dateValue == IF parsedDate # Null THEN parsedDate
                   ELSE [type |-> "string", text |-> d.date]
  IN [type |-> "donation", msg |-> m,
      cells |-> [date |-> dateValue, name |-> d.name, amount |-> d.amount,
                 frequency |-> d.frequency]]

NoStart == [posts |-> 0, donations |-> 0, unread |-> {}]

Event(op, m, ok) == [op |-> op, msg |-> m, ok |-> ok]

Init ==
  /\ props \in [PropKeys -> PropValues]
  /\ timeZone \in TimeZones
  /\ mailbox = <<>>
  /\ sheet = <<>>
  /\ posts = <<>>
  /\ pc = "Idle"
  /\ config = NullConfig
  /\ slackService = FALSE
  /\ sheetsService = FALSE
  /\ messages = <<>>
  /\ idx = 1
  /\ details = Null
  /\ runs = 0
  /\ faults = 0
  /\ start = NoStart
  /\ unreadAtScan = {}
  /\ trace = <<>>

\* ----------------------------------------------------------- environment
Threads == {mailbox[m].thread : m \in 1..Len(mailbox)}

Unread == {m \in 1..Len(mailbox) : mailbox[m].unread}
DonationRows == SelectSeq(sheet, LAMBDA r : r.type = "donation")

\* A new matching mail arrives, unread, in a new thread or in an existing one.
Arrive ==
  /\ pc = "Idle"
  /\ Len(mailbox) < MaxMsgs
  /\ \E b \in Bodies, t \in 1..(Cardinality(Threads) + 1) :
       mailbox' = Append(mailbox, [thread |-> t, unread |-> TRUE, body |-> b])
  /\ UNCHANGED << props, timeZone, sheet, posts, pc, config, slackService,
                  sheetsService, messages, idx, details, runs, faults, start,
                  unreadAtScan, trace >>

\* The same, the body being any of AllBodies.
ArriveAny ==
  /\ pc = "Idle"
  /\ Len(mailbox) < MaxMsgs
  /\ \E b \in AllBodies, t \in 1..(Cardinality(Threads) + 1) :
       mailbox' = Append(mailbox, [thread |-> t, unread |-> TRUE, body |-> b])
  /\ UNCHANGED << props, timeZone, sheet, posts, pc, config, slackService,
                  sheetsService, messages, idx, details, runs, faults, start,
                  unreadAtScan, trace >>

\* The scheduler calls the global checkForNewDonations() (main.ts 290-293).
Trigger ==
  /\ pc = "Idle"
  /\ runs < MaxRuns
  /\ runs' = runs + 1
  /\ pc' = "loadConfig"
  /\ start' = [posts |-> Len(posts), donations |-> Len(DonationRows),
               unread |-> Unread]
  /\ UNCHANGED << props, timeZone, mailbox, sheet, posts, config, slackService,
                  sheetsService, messages, idx, details, faults, unreadAtScan,
                  trace >>

\* A host call returns, or throws while the fault budget lasts.
Fault(failed) ==
  /\ failed => faults < MaxFaults
  /\ faults' = IF failed THEN faults + 1 ELSE faults

\* --------------------------------------- ConfigService (main.ts 44-71)
\* loadConfig: the three properties as read.
loadConfig ==
  [slackWebhookUrl |-> props["SLACK_WEBHOOK_URL"],
   spreadsheetId |-> props["GOOGLE_SHEETS_ID"],
   sheetName |-> props["GOOGLE_SHEETS_NAME"]]

isSheetsConfigValid == Boolean(config.spreadsheetId) /\ Boolean(config.sheetName)

\* A bug: either sink's configuration opens the gate.
isConfigValid_OrSheets == Boolean(config.slackWebhookUrl) \/ isSheetsConfigValid

isConfigValid == Boolean(config.slackWebhookUrl)

\* new DonationNotifierApp(): new ConfigService() reads the property store.
\* The constructor runs outside every try block: a throw of the store leaves
\* the invocation through the global function.
LoadConfig ==
  /\ pc = "loadConfig"
  /\ \E ok \in BOOLEAN :
       /\ Fault(~ok)
       /\ IF ok
          THEN /\ config' = loadConfig
               /\ pc' = "initializeServices"
               /\ trace' = Append(trace, Event("loadConfig", 0, TRUE))
          ELSE /\ config' = config
               /\ pc' = "Crashed"
               /\ trace' = Append(trace, Event("loadConfig", 0, FALSE))
  /\ UNCHANGED << props, timeZone, mailbox, sheet, posts, slackService, sheetsService,
                  messages, idx, details, runs, start, unreadAtScan >>

\* ------------------------------------- SheetsService (main.ts 169-221)
\* getSheet: openById throws (caught, null), getSheetByName finds no sheet
\* (null), or the sheet is returned.
GetSheetOutcomes == {"openThrows", "noSheet", "sheet"}
getSheet(outcome) == IF outcome = "sheet" THEN "sheet" ELSE "null"

\* A bug: the header row is appended whatever getLastRow returns.
ensureHeaders_Always(sh, lookup, lastRowCall, appendCall) ==
  IF getSheet(lookup) = "null"
  THEN [sheet |-> sh, done |-> FALSE, thrown |-> FALSE]
  ELSE IF lastRowCall = "throws"
  THEN [sheet |-> sh, done |-> FALSE, thrown |-> FALSE]
  ELSE IF appendCall = "throws"
  THEN [sheet |-> sh, done |-> FALSE, thrown |-> FALSE]
  ELSE [sheet |-> Append(sh, HeaderRow), done |-> TRUE, thrown |-> FALSE]

\* ensureHeaders under the outcome of getSheet and of the two sheet calls
\* (getLastRow, appendRow: "ok" or "throws"): the sheet after it, whether the
\* header check completed, and whether an exception leaves the method.
ensureHeaders(sh, lookup, lastRowCall, appendCall) ==
  IF getSheet(lookup) = "null"
  THEN [sheet |-> sh, done |-> FALSE, thrown |-> FALSE]
  ELSE IF lastRowCall = "throws"
  THEN [sheet |-> sh, done |-> FALSE, thrown |-> FALSE]
  ELSE IF Len(sh) = 0
  THEN IF appendCall = "throws"
       THEN [sheet |-> sh, done |-> FALSE, thrown |-> FALSE]
       ELSE [sheet |-> Append(sh, HeaderRow), done |-> TRUE, thrown |-> FALSE]
  ELSE [sheet |-> sh, done |-> TRUE, thrown |-> FALSE]

CallOutcomes == {"ok", "throws"}

\* DonationNotifierApp.initializeServices, called by the constructor.
InitializeServices ==
  /\ pc = "initializeServices"
  /\ slackService' = Boolean(config.slackWebhookUrl)
  /\ IF Boolean(config.spreadsheetId) /\ Boolean(config.sheetName)
     THEN \E lookup \in GetSheetOutcomes, lastRowCall \in CallOutcomes,
             appendCall \in CallOutcomes :
            LET r == ensureHeaders(sheet, lookup, lastRowCall, appendCall)
            IN /\ Fault(~r.done)
               /\ sheetsService' = TRUE
               /\ sheet' = r.sheet
               /\ trace' = Append(trace, Event("ensureHeaders", 0, r.done))
               /\ pc' = IF r.thrown THEN "Crashed" ELSE "checkForNewDonations"
     ELSE /\ sheetsService' = FALSE
          /\ sheet' = sheet
          /\ trace' = trace
          /\ faults' = faults
          /\ pc' = "checkForNewDonations"
  /\ UNCHANGED << props, timeZone, mailbox, posts, config, messages, idx, details, runs,
                  start, unreadAtScan >>

\* ------------------------- DonationNotifierApp.checkForNewDonations
\* The gate on the webhook URL (main.ts 248-251).
CheckForNewDonations ==
  /\ pc = "checkForNewDonations"
  /\ IF ~isConfigValid
     THEN /\ trace' = Append(trace, Event("warnDisabled", 0, TRUE))
          /\ pc' = "Done"
     ELSE /\ trace' = trace
          /\ pc' = "search"
  /\ UNCHANGED << props, timeZone, mailbox, sheet, posts, config, slackService,
                  sheetsService, messages, idx, details, runs, faults, start,
                  unreadAtScan >>

\* --------------------------- GmailService.processNewDonations (78-96)
\* The ascending sequence of a set of mail ids.
RECURSIVE Ascending(_)
Ascending(S) ==
  IF S = {} THEN <<>> ELSE <<Min(S)>> \o Ascending(S \ {Min(S)})

ThreadMessages(t) ==
  Ascending({m \in 1..Len(mailbox) : mailbox[m].thread = t})

\* GmailApp.search('subject:"..." is:unread'): the threads that hold a
\* matching unread mail.
SearchThreads == {mailbox[m].thread : m \in Unread}

\* GmailApp.getMessagesForThreads(threads).flat(): every mail of the found
\* threads, the thread with the latest mail first, each thread in
\* arrival order.
RECURSIVE Flat(_)
Flat(ts) ==
  IF ts = {} THEN <<>>
  ELSE LET latest(t) == Max({m \in 1..Len(mailbox) : mailbox[m].thread = t})
           first == CHOOSE t \in ts : \A u \in ts : latest(t) >= latest(u)
       IN ThreadMessages(first) \o Flat(ts \ {first})

SearchMessages == Flat(SearchThreads)

\* The search and the fetch of the threads' mails (main.ts 81-82); a throw is
\* caught by checkForNewDonations (261-263).
Search ==
  /\ pc = "search"
  /\ \E ok \in BOOLEAN :
       /\ Fault(~ok)
       /\ IF ok
          THEN /\ messages' = SearchMessages
               /\ idx' = 1
               /\ unreadAtScan' = Unread
               /\ trace' = Append(trace, Event("search", 0, TRUE))
               /\ pc' = "loop"
          ELSE /\ UNCHANGED << messages, idx, unreadAtScan >>
               /\ trace' = Append(trace, Event("search", 0, FALSE))
               /\ pc' = "Done"
  /\ UNCHANGED << props, timeZone, mailbox, sheet, posts, config, slackService,
                  sheetsService, details, runs, start >>

\* The body of the for-of loop has returned: the next message.
Continue ==
  /\ idx' = idx + 1
  /\ pc' = "loop"

\* A bug: no catch per message, the throw ends the scan in the catch of
\* checkForNewDonations.
Abandon_AbortsScan ==
  /\ idx' = idx
  /\ pc' = "Done"

\* The catch of a message's try block (main.ts 92-94, 283-285): the error is
\* logged and the loop goes on with the next message.
Abandon ==
  /\ idx' = idx + 1
  /\ pc' = "loop"

\* The loop is over: processNewDonations returns (main.ts 260).
LoopEnd ==
  /\ pc = "loop"
  /\ idx > Len(messages)
  /\ pc' = "Done"
  /\ UNCHANGED << props, timeZone, mailbox, sheet, posts, config, slackService,
                  sheetsService, messages, idx, details, runs, faults, start,
                  unreadAtScan, trace >>

\* One message of the loop: getPlainBody, extractDonationDetails, and the
\* callback when there are details (main.ts 85-91).  A throw of getPlainBody
\* (or of getId) is caught by the message's catch.
Extract ==
  /\ pc = "loop"
  /\ idx <= Len(messages)
  /\ LET m == messages[idx]
     IN \E ok \in BOOLEAN :
          /\ Fault(~ok)
          /\ IF ~ok
             THEN /\ trace' = Append(trace, Event("getPlainBody", m, FALSE))
                  /\ details' = Null
                  /\ Abandon
             ELSE LET d == DetailsOf[mailbox[m].body]
                  IN IF d # Null
                     THEN /\ trace' = Append(trace, Event("extract", m, TRUE))
                          /\ details' = d
                          /\ idx' = idx
                          /\ pc' = "notify"
                     ELSE /\ trace' = Append(trace, Event("extract", m, FALSE))
                          /\ details' = Null
                          /\ Continue
  /\ UNCHANGED << props, timeZone, mailbox, sheet, posts, config, slackService,
                  sheetsService, messages, runs, start, unreadAtScan >>

\* ------------------- DonationNotifierApp.processDonation (266-286)
\* sendDonationNotification (main.ts 272-274, 145-165): the POST, rethrown
\* when it fails.
Notify ==
  /\ pc = "notify"
  /\ LET m == messages[idx]
     IN IF slackService
        THEN \E ok \in BOOLEAN :
               /\ Fault(~ok)
               /\ IF ok
                  THEN /\ posts' = Append(posts,
                            [msg |-> m,
                             payload |-> SlackWorkflowPayload(details.date,
                                           details.amount, details.frequency)])
                       /\ trace' = Append(trace, Event("notify", m, TRUE))
                       /\ details' = details
                       /\ idx' = idx
                       /\ pc' = "record"
                  ELSE /\ posts' = posts
                       /\ trace' = Append(trace, Event("notify", m, FALSE))
                       /\ details' = Null
                       /\ Abandon
        ELSE /\ UNCHANGED << posts, trace, details, idx, faults >>
             /\ pc' = "record"
  /\ UNCHANGED << props, timeZone, mailbox, sheet, config, slackService, sheetsService,
                  messages, runs, start, unreadAtScan >>

\* A bug: recordDonation logs the failure and does not rethrow.
Record_SwallowsError ==
  /\ pc = "record"
  /\ LET m == messages[idx]
     IN IF sheetsService
        THEN \E lookup \in GetSheetOutcomes, appendCall \in CallOutcomes :
               /\ Fault(~(getSheet(lookup) # "null" /\ appendCall = "ok"))
               /\ IF getSheet(lookup) # "null" /\ appendCall = "ok"
                  THEN /\ \E hostAccepts \in BOOLEAN :
                            sheet' = Append(sheet, DonationRow(m, details, hostAccepts,
                                                        timeZone))
                       /\ trace' = Append(trace, Event("record", m, TRUE))
                       /\ details' = details
                       /\ idx' = idx
                       /\ pc' = "markRead"
                  ELSE /\ sheet' = sheet
                       /\ trace' = Append(trace, Event("record", m, FALSE))
                       /\ details' = details
                       /\ idx' = idx
                       /\ pc' = "markRead"
        ELSE /\ UNCHANGED << sheet, trace, details, idx, faults >>
             /\ pc' = "markRead"
  /\ UNCHANGED << props, timeZone, mailbox, posts, config, slackService, sheetsService,
                  messages, runs, start, unreadAtScan >>

\* recordDonation (main.ts 276-278, 178-195): the sheet lookup, the append,
\* rethrown when either fails.
Record ==
  /\ pc = "record"
  /\ LET m == messages[idx]
     IN IF sheetsService
        THEN \E lookup \in GetSheetOutcomes, appendCall \in CallOutcomes :
               /\ Fault(~(getSheet(lookup) # "null" /\ appendCall = "ok"))
               /\ IF getSheet(lookup) # "null" /\ appendCall = "ok"
                  THEN /\ \E hostAccepts \in BOOLEAN :
                            sheet' = Append(sheet, DonationRow(m, details, hostAccepts,
                                                        timeZone))
                       /\ trace' = Append(trace, Event("record", m, TRUE))
                       /\ details' = details
                       /\ idx' = idx
                       /\ pc' = "markRead"
                  ELSE /\ sheet' = sheet
                       /\ trace' = Append(trace, Event("record", m, FALSE))
                       /\ details' = Null
                       /\ Abandon
        ELSE /\ UNCHANGED << sheet, trace, details, idx, faults >>
             /\ pc' = "markRead"
  /\ UNCHANGED << props, timeZone, mailbox, posts, config, slackService, sheetsService,
                  messages, runs, start, unreadAtScan >>

\* GmailApp.getMessageById(messageId).markRead() (main.ts 281); a throw is
\* caught like a sink's.
MarkRead ==
  /\ pc = "markRead"
  /\ LET m == messages[idx]
     IN \E ok \in BOOLEAN :
          /\ Fault(~ok)
          /\ trace' = Append(trace, Event("markRead", m, ok))
          /\ IF ok THEN /\ mailbox' = [mailbox EXCEPT ![m].unread = FALSE]
                        /\ Continue
                   ELSE /\ mailbox' = mailbox
                        /\ Abandon
  /\ details' = Null
  /\ UNCHANGED << props, timeZone, sheet, posts, config, slackService, sheetsService,
                  messages, runs, start, unreadAtScan >>

\* The invocation is over: the global function returns to the scheduler, or
\* the exception reaches it.  The app object is dropped.
Return ==
  /\ pc \in {"Done", "Crashed"}
  /\ pc' = "Idle"
  /\ config' = NullConfig
  /\ slackService' = FALSE
  /\ sheetsService' = FALSE
  /\ messages' = <<>>
  /\ idx' = 1
  /\ details' = Null
  /\ unreadAtScan' = {}
  /\ trace' = <<>>
  /\ start' = NoStart
  /\ UNCHANGED << props, timeZone, mailbox, sheet, posts, runs, faults >>

Next ==
  \/ Arrive
  \/ Trigger
  \/ LoadConfig
  \/ InitializeServices
  \/ CheckForNewDonations
  \/ Search
  \/ LoopEnd
  \/ Extract
  \/ Notify
  \/ Record
  \/ MarkRead
  \/ Return

Spec == Init /\ [][Next]_vars

\* The same program with every kind of body in the mail.
NextAnyBody ==
  \/ ArriveAny
  \/ Trigger
  \/ LoadConfig
  \/ InitializeServices
  \/ CheckForNewDonations
  \/ Search
  \/ LoopEnd
  \/ Extract
  \/ Notify
  \/ Record
  \/ MarkRead
  \/ Return

SpecAnyBody == Init /\ [][NextAnyBody]_vars

\* ================================================================ claims
\* What the invocation in progress has done, read off its trace.
Ev(op, m) == {i \in 1..Len(trace) : trace[i].op = op /\ trace[i].msg = m}
Called(op, m) == Ev(op, m) # {}
Succeeded(op, m) == \E i \in Ev(op, m) : trace[i].ok
Threw(op, m) == \E i \in Ev(op, m) : ~trace[i].ok

MessageOps == {"getPlainBody", "extract", "notify", "record", "markRead"}
Fetched == {messages[i] : i \in 1..Len(messages)}

\* The posts and the donation rows of a mail, over all invocations.
PostsFor(m) == Cardinality({i \in 1..Len(posts) : posts[i].msg = m})
RowsFor(m) ==
  Cardinality({i \in 1..Len(sheet) : sheet[i].type = "donation" /\ sheet[i].msg = m})

\* The message was handed to the orchestrator (the callback was called).
Handed(m) == Succeeded("extract", m)
\* Every configured sink completed for the message.
SinksOk(m) ==
  /\ slackService => Succeeded("notify", m)
  /\ sheetsService => Succeeded("record", m)
\* The message was marked read by this invocation.
MarkedRead(m) == Succeeded("markRead", m) /\ ~mailbox[m].unread
\* The message is as unread as the search found it.
StillUnread(m) == m \in unreadAtScan => mailbox[m].unread

\* C1 (as stated): when the invocation is done, a message handed to the
\* orchestrator is marked read if and only if every configured sink completed
\* for it.
C1_MarkedIffSinksSucceeded ==
  pc = "Done" =>
    \A m \in Fetched : Handed(m) => (MarkedRead(m) <=> SinksOk(m))

\* C2 (as stated): only mails that were unread at the search are extracted,
\* notified or recorded; a mail that was marked read is not processed again.
C2_OnlyUnreadProcessed ==
  \A i \in 1..Len(trace) :
    trace[i].op \in {"extract", "notify", "record"} => trace[i].msg \in unreadAtScan

\* C3 (as stated): over all invocations the sheet receives at most one
\* donation row for a mail.
C3_AtMostOneRowPerMessage ==
  \A m \in 1..Len(mailbox) : RowsFor(m) <= 1

\* C4: when the scan is done, every message of the search was extracted and,
\* when it parsed, handed to notify, whatever failed for the messages before.
C4_FailureIsolatedPerMessage ==
  (pc = "Done" /\ Succeeded("search", 0)) =>
    \A i \in 1..Len(messages) :
      LET m == messages[i]
      IN /\ Called("getPlainBody", m) \/ Called("extract", m)
         /\ (Handed(m) /\ slackService) => Called("notify", m)
         /\ (SinksOk(m) /\ Handed(m)) => Called("markRead", m)

\* C4 witness: a call threw for one message and a later message of the same
\* search went through notify, record and mark-read.
C4_Witness ==
  /\ pc = "Done"
  /\ \E i, j \in 1..Len(messages) :
       /\ i < j
       /\ \E op \in {"getPlainBody", "notify", "record", "markRead"} :
            Threw(op, messages[i])
       /\ Succeeded("notify", messages[j])
       /\ Succeeded("record", messages[j])
       /\ MarkedRead(messages[j])

\* C5: with no webhook URL the invocation warns and is done: no search, no
\* notify, no donation row, no mail marked read, also with the sheet
\* configured.
C5_DisabledWithoutWebhook ==
  (Succeeded("loadConfig", 0) /\ ~Boolean(config.slackWebhookUrl)) =>
    /\ pc \in {"initializeServices", "checkForNewDonations", "Done"}
    /\ \A i \in 1..Len(trace) : trace[i].op \notin (MessageOps \cup {"search"})
    /\ Len(posts) = start.posts
    /\ Len(DonationRows) = start.donations
    /\ Unread = start.unread
    /\ pc = "Done" => trace[Len(trace)] = Event("warnDisabled", 0, TRUE)

\* C5 witness: sheet configured, webhook absent, unread mail waiting, and the
\* invocation is done after the warning.
C5_Witness ==
  /\ pc = "Done"
  /\ ~Boolean(config.slackWebhookUrl)
  /\ sheetsService
  /\ Unread # {}
  /\ Called("warnDisabled", 0)

\* C6 (as stated): no exception leaves the entry point, whichever host call
\* fails.
C6_NoExceptionEscapes == pc # "Crashed"

\* The body has no line of the label, or its amount has no digit.
Labels == {"<date>", "<name>", "<amount>", "<freq>"}
LacksField(body) == \E l \in Labels : \A i \in 1..Len(body) : body[i] # l
AmountUnparseable(body) ==
  \E i \in 1..Len(body) :
    /\ body[i] = "<amount>"
    /\ \A k \in (i + 1)..Len(body) :
         (\A j \in (i + 1)..k : body[j] # "<yen>") => ~IsDigit(body[k])

Unparseable ==
  {b \in Bodies : LacksField(b) \/ AmountUnparseable(b)}

\* The amount of the body, the separators stripped, parses as no integer.
AmountNotInteger(body) ==
  LET mAmount == MatchAmount(body)
  IN /\ mAmount # NoMatch
     /\ parseInt(StripCommas(trim(mAmount[1]))) \in {NaN, Infinity}
NotParsed ==
  {b \in AllBodies : LacksField(b) \/ AmountNotInteger(b)}

\* C7 (as stated): a message whose body lacks one of the four labelled fields,
\* or whose amount does not parse as an integer, is skipped: not handed to the
\* callback, no sink or mark-read call for it, still unread, and the scan
\* does not throw but goes on.
C7_UnparsedMessageSkipped ==
  \A i \in 1..Len(messages) :
    LET m == messages[i]
    IN mailbox[m].body \in NotParsed =>
         /\ ~Handed(m)
         /\ \A op \in {"notify", "record", "markRead"} : ~Called(op, m)
         /\ StillUnread(m)
         /\ pc # "Crashed"
         /\ (i < idx /\ ~Threw("getPlainBody", m)) =>
              \E k \in Ev("extract", m) : ~trace[k].ok

\* No host call of this invocation threw.
NoFailure == \A i \in 1..Len(trace) : trace[i].op # "extract" => trace[i].ok

\* C8 (as stated): one unread matching mail (it parses), both sinks configured,
\* no call failing: one notify, one record, one mark-read in the invocation;
\* no unread matching mail: no sink call.
C8_OneMessageOnce ==
  (pc = "Done" /\ Succeeded("search", 0) /\ NoFailure) =>
    /\ ( /\ Cardinality(unreadAtScan) = 1
         /\ \A m \in unreadAtScan : mailbox[m].body \notin Unparseable
         /\ slackService /\ sheetsService ) =>
           /\ Len(posts) - start.posts = 1
           /\ Len(DonationRows) - start.donations = 1
           /\ Cardinality({i \in 1..Len(trace) :
                             trace[i].op = "markRead" /\ trace[i].ok}) = 1
    /\ unreadAtScan = {} =>
           /\ Len(posts) = start.posts
           /\ Len(DonationRows) = start.donations

\* C9: per message the calls come in the order extract, notify, record,
\* mark-read, each directly after the success of the one before; record is
\* attempted only after notify succeeded and mark-read only after the
\* configured sinks succeeded; the first call of a message comes after the
\* last call of the message before it.
C9_StepsInOrder ==
  /\ \A j \in 2..Len(trace) :
       LET a == trace[j - 1]
           b == trace[j]
       IN b.msg # 0 =>
            IF a.msg = b.msg
            THEN /\ a.ok
                 /\ <<a.op, b.op>> \in
                      { <<"extract", "notify">>, <<"extract", "record">>,
                        <<"extract", "markRead">>, <<"notify", "record">>,
                        <<"notify", "markRead">>, <<"record", "markRead">> }
            ELSE /\ b.op \in {"getPlainBody", "extract"}
                 /\ \A i \in 1..(j - 1) : trace[i].msg # b.msg
  /\ \A m \in Fetched :
       /\ Called("record", m) => (slackService => Succeeded("notify", m))
       /\ Called("markRead", m) => SinksOk(m)
       /\ (Called("notify", m) \/ Called("record", m) \/ Called("markRead", m))
            => Handed(m)
  /\ pc \in {"notify", "record", "markRead"} => Handed(messages[idx])

\* C9 witness: one message went through notify, record and mark-read in that
\* order, and for the next notify threw and nothing more was attempted.
C9_Witness ==
  /\ pc = "Done"
  /\ \E m, n \in Fetched :
       /\ Succeeded("notify", m) /\ Succeeded("record", m) /\ Succeeded("markRead", m)
       /\ Threw("notify", n) /\ ~Called("record", n) /\ ~Called("markRead", n)
       /\ \A i \in Ev("markRead", m), j \in Ev("notify", n) : i < j

\* C10: a failed sheet lookup or header check at construction does not leave
\* the constructor and does not block notification: with the webhook set the
\* search is made and every parsed message goes to notify; and a header row is
\* only ever appended to a sheet without rows.
C10_SetupFailureDoesNotBlock ==
  /\ Threw("ensureHeaders", 0) =>
       /\ pc # "Crashed"
       /\ (pc = "Done" /\ Boolean(config.slackWebhookUrl)) =>
            /\ Called("search", 0)
            /\ Succeeded("search", 0) =>
                 \A m \in Fetched : Handed(m) => Called("notify", m)
  /\ \A i \in 1..Len(sheet) : sheet[i].type = "header" => i = 1

\* C10 witness: the header check failed on the empty sheet, and the same
\* invocation notified and recorded a message: its row is the first row.
C10_Witness ==
  /\ pc = "Done"
  /\ Threw("ensureHeaders", 0)
  /\ Len(sheet) > 0 /\ sheet[1].type = "donation"
  /\ \E m \in Fetched : Succeeded("notify", m) /\ Succeeded("record", m)

====
